---- MODULE Spec2Model ----
(***************************************************************************)
(* Model of streamlit_app.py, the ASRS climate scenario analysis form.     *)
(*                                                                         *)
(* A Streamlit script is re-run from its first line to its last after      *)
(* every user interaction.  The state that survives between runs is the    *)
(* widget state (the industry selectbox, the scenario multiselect, the     *)
(* file uploader) and the temporary files left on disk.  Every action      *)
(* below is one interaction followed by the whole re-run.  The script      *)
(* keeps nothing else between runs, so what a run puts on the page before  *)
(* it ends (normally, or at the line that raises an uncaught exception) is *)
(* a function of the widget values it read: Page.                          *)
(*                                                                         *)
(* Money: exposure cells are whole AUD millions.  The factors              *)
(* risk_profile[0] / 10 and physical_risk are tenths, so every derived     *)
(* figure is held exactly as an integer number of TENTHS of AUD M, and a   *)
(* figure printed with two decimals as an integer number of HUNDREDTHS.    *)
(***************************************************************************)
EXTENDS Integers, Sequences, FiniteSets, TLC

VARIABLES
    industry,            \* value of the selectbox                (line 33)
    selected_scenarios,  \* value of the multiselect              (line 44)
    exposure_file,       \* value of the file uploader            (line 56)
    generate,            \* value of the button in the last run   (line 115)
    storage_ok,          \* whether that run could write its PDF  (line 140)
    tempfiles            \* number of export files left in the temp directory

vars == <<industry, selected_scenarios, exposure_file, generate, storage_ok, tempfiles>>

----------------------------------------------------------------------------
(* Bounds of the model                                                     *)

MaxRows == 2        \* rows of an uploaded file
MaxExports == 1     \* export files counted on disk

----------------------------------------------------------------------------
(* Scenario catalog, lines 14-29                                           *)

NZ  == "Net Zero 2050"
DT  == "Delayed Transition"
HHW == "Hot House World"
IDT == "Immediate Disorderly Transition (2025 release)"
CPE == "Current Policies Extension (2025 release)"

\* A catalog whose definitions table lacks one scenario of the parameters
\* table.
scenario_definitions_MissingEntry ==
    [s \in {NZ, DT, HHW, IDT} |->
        CASE s = NZ  -> "Immediate and ambitious mitigation aligned with 1.5C. (ASRS Ref: Strategy S2-6, Metrics M2-1)"
          [] s = DT  -> "Postponed mitigation leading to a sharper adjustment later. (ASRS Ref: Strategy S2-6, Risk R2-2)"
          [] s = HHW -> "No meaningful transition, resulting in >3C warming. (ASRS Ref: Risk R2-1, Metrics M2-2)"
          [] s = IDT -> "Aggressive action taken suddenly, creating short-term volatility. (ASRS Ref: Strategy S2-6, Governance G2-3)"]

scenario_definitions ==
    [s \in {NZ, DT, HHW, IDT, CPE} |->
        CASE s = NZ  -> "Immediate and ambitious mitigation aligned with 1.5C. (ASRS Ref: Strategy S2-6, Metrics M2-1)"
          [] s = DT  -> "Postponed mitigation leading to a sharper adjustment later. (ASRS Ref: Strategy S2-6, Risk R2-2)"
          [] s = HHW -> "No meaningful transition, resulting in >3C warming. (ASRS Ref: Risk R2-1, Metrics M2-2)"
          [] s = IDT -> "Aggressive action taken suddenly, creating short-term volatility. (ASRS Ref: Strategy S2-6, Governance G2-3)"
          [] s = CPE -> "Continuation of current insufficient policies, high physical risks. (ASRS Ref: Risk R2-1, Strategy S2-6)"]

\* physical_risk is held in tenths: 0.2 is 2.
scenario_data ==
    [s \in {NZ, DT, HHW, IDT, CPE} |->
        CASE s = NZ  -> [carbon_price |-> 130, temperature_pathway |-> "1.5C",
                         risk_profile |-> <<8, 3, 9, 7, 6>>, physical_risk |-> 2]
          [] s = DT  -> [carbon_price |-> 180, temperature_pathway |-> "2.4C",
                         risk_profile |-> <<7, 5, 8, 6, 4>>, physical_risk |-> 4]
          [] s = HHW -> [carbon_price |-> 0, temperature_pathway |-> ">3C",
                         risk_profile |-> <<4, 9, 2, 5, 3>>, physical_risk |-> 7]
          [] s = IDT -> [carbon_price |-> 160, temperature_pathway |-> "<2C",
                         risk_profile |-> <<9, 6, 8, 8, 5>>, physical_risk |-> 3]
          [] s = CPE -> [carbon_price |-> 20, temperature_pathway |-> ">3.5C",
                         risk_profile |-> <<3, 10, 1, 4, 2>>, physical_risk |-> 8]]

\* list(scenario_data.keys()): the multiselect's options, in insertion order.
ScenarioOptions == <<NZ, DT, HHW, IDT, CPE>>

----------------------------------------------------------------------------
(* Industry selectbox and defaults, lines 33-43                            *)

IndustryOptions ==
    <<"Financial Services", "Real Estate", "Agriculture", "Energy", "Manufacturing">>

industry_defaults ==
    [i \in {"Financial Services", "Real Estate", "Agriculture", "Energy", "Manufacturing"} |->
        CASE i = "Financial Services" -> <<NZ, DT>>
          [] i = "Real Estate"        -> <<NZ, HHW>>
          [] i = "Agriculture"        -> <<DT, HHW>>
          [] i = "Energy"             -> <<IDT, NZ>>
          [] i = "Manufacturing"      -> <<CPE, DT>>]

\* The lookup with an empty fallback list.
default_scenarios_NoFallback(ind) ==
    IF ind \in DOMAIN industry_defaults THEN industry_defaults[ind] ELSE <<>>

\* industry_defaults.get(industry, ["Net Zero 2050"])
default_scenarios(ind) ==
    IF ind \in DOMAIN industry_defaults THEN industry_defaults[ind] ELSE <<NZ>>

----------------------------------------------------------------------------
(* Sequences                                                               *)

Range(s) == {s[i] : i \in 1..Len(s)}

RECURSIVE Remove(_, _)
Remove(s, x) ==
    IF s = <<>> THEN <<>>
    ELSE IF Head(s) = x THEN Remove(Tail(s), x)
    ELSE <<Head(s)>> \o Remove(Tail(s), x)

SeqsUpTo(S, n) == UNION {[1..k -> S] : k \in 0..n}

----------------------------------------------------------------------------
(* Uploaded files                                                          *)

\* A CSV in the uploader: the required columns its header holds, the number
\* of data rows, and the figures of its Exposure_M AUD column when it has
\* one (none otherwise).  The Sector cell of row i is SectorNames[i].
ColSector == "Sector"
ColExposure == "Exposure_M AUD"

Figures == <<100, 50, -20>>
Cells == Range(Figures)
SectorNames == <<"Financials", "Real Estate", "Energy", "Utilities">>

\* The files tried, of up to MaxRows rows: with both columns, any figures,
\* none twice in a file; with one required column missing, the first
\* figures of Figures (none when it is the figures' column that is missing).
Files ==
    {[columns |-> {ColSector, ColExposure}, rows |-> Len(c), cells |-> c] :
        c \in {s \in SeqsUpTo(Cells, MaxRows) : Cardinality(Range(s)) = Len(s)}}
    \cup {[columns |-> {ColExposure}, rows |-> n, cells |-> SubSeq(Figures, 1, n)] :
            n \in 0..MaxRows}
    \cup {[columns |-> {ColSector}, rows |-> n, cells |-> <<>>] : n \in 0..MaxRows}

\* exposure_file is None (falsy) or an UploadedFile (truthy), lines 56, 59.
NoFile == [present |-> FALSE, columns |-> {}, rows |-> 0, cells |-> <<>>]
Uploaded(f) == [present |-> TRUE, columns |-> f.columns, rows |-> f.rows, cells |-> f.cells]

\* exposure_df['Exposure_M AUD'].sum(), line 62: 0 for an empty column.
RECURSIVE ColumnSum(_)
ColumnSum(cells) ==
    IF cells = <<>> THEN 0 ELSE Head(cells) + ColumnSum(Tail(cells))

----------------------------------------------------------------------------
(* One run of the script                                                   *)

NoError == [exception |-> "none", line |-> 0]
KeyError(l) == [exception |-> "KeyError", line |-> l]
OSError(l) == [exception |-> "OSError", line |-> l]

\* Index of the first name of sel that is no key of table, 0 if all are.
FirstMissing(sel, table) ==
    LET bad == {i \in 1..Len(sel) : sel[i] \notin DOMAIN table}
    IN  IF bad = {} THEN 0 ELSE CHOOSE i \in bad : \A j \in bad : i <= j

\* The longest prefix of sel a loop over it handles before table[s] raises.
Handled(sel, table) ==
    IF FirstMissing(sel, table) = 0 THEN sel
    ELSE SubSeq(sel, 1, FirstMissing(sel, table) - 1)

\* Lines 51-52: one markdown line per selected scenario.
Definitions(sel) ==
    [i \in 1..Len(Handled(sel, scenario_definitions)) |->
        [name |-> sel[i], text |-> scenario_definitions[sel[i]]]]

\* The rings drawn in the catalog's order instead of the selection's.
RadarSeries_CatalogOrder(sel) ==
    LET ordered == SelectSeq(ScenarioOptions, LAMBDA s : s \in Range(sel))
    IN  [i \in 1..Len(ordered) |->
            [label |-> ordered[i],
             scores |-> scenario_data[ordered[i]].risk_profile
                            \o <<scenario_data[ordered[i]].risk_profile[1]>>]]

\* Lines 73-77: one closed ring per selected scenario, labelled by its name.
RadarSeries(sel) ==
    [i \in 1..Len(Handled(sel, scenario_data)) |->
        [label |-> sel[i],
         scores |-> scenario_data[sel[i]].risk_profile
                        \o <<scenario_data[sel[i]].risk_profile[1]>>]]

\* Line 93: total_exposure * (risk_profile[0] / 10), in tenths of AUD M.
TransitionVar(total, data) == total * data.risk_profile[1]

\* Line 94: total_exposure * physical_risk, in tenths of AUD M.
PhysicalLoss(total, data) == total * data.physical_risk

\* Lines 89-96 and 98-108: the two bar series and the tick labels.
BarChart(sel, total) ==
    [drawn |-> TRUE,
     transition_vars |-> [i \in 1..Len(sel) |-> TransitionVar(total, scenario_data[sel[i]])],
     physical_losses |-> [i \in 1..Len(sel) |-> PhysicalLoss(total, scenario_data[sel[i]])],
     ticks |-> sel]

NoBarChart ==
    [drawn |-> FALSE, transition_vars |-> <<>>, physical_losses |-> <<>>, ticks |-> <<>>]

\* f"{x:.2f}" of a figure held in tenths: the same amount in hundredths.
Format2f(tenths) == tenths * 10

\* The export's copy of the formula drifting to another score.
PdfVar_WrongScore(file, total, data) ==
    IF file.present THEN total * data.risk_profile[2] ELSE 0

\* The export's loss falling back to the bare factor instead of 0.
PdfLoss_FactorWhenAbsent(file, total, data) ==
    IF file.present THEN total * data.physical_risk ELSE data.physical_risk

\* Lines 122-124: the two figures the export computes for one scenario,
\* the literal 0 when the uploader is empty.
PdfVar(file, total, data) ==
    IF file.present THEN total * data.risk_profile[1] ELSE 0

PdfLoss(file, total, data) ==
    IF file.present THEN total * data.physical_risk ELSE 0

Line(kind, text, value) == [kind |-> kind, text |-> text, value |-> value]

\* Lines 134-137: the heading and one line per row of the data frame; row
\* access row['Sector'] raises KeyError on the first row of a frame that has
\* no such column.
ExposureListing(file) ==
    IF ~file.present THEN <<>>
    ELSE <<Line("Uploaded Exposure Data:", "", 0)>>
         \o (IF ColSector \in file.columns
             THEN [i \in 1..file.rows |->
                      Line("row", SectorNames[i], file.cells[i])]
             ELSE <<>>)

ListingRaises(file) ==
    file.present /\ ColSector \notin file.columns /\ file.rows > 0

\* The exposure listing written inside the scenario loop.
ScenarioSection_WithListing(s, file, total) ==
    <<Line("Scenario", s, 0),
      Line("Description", scenario_definitions[s], 0),
      Line("Temperature Pathway", scenario_data[s].temperature_pathway, 0),
      Line("Carbon Price (2030)", "AUD per tCO2e", scenario_data[s].carbon_price)>>
    \o (IF file.present
        THEN <<Line("Estimated Transition VaR", s,
                    Format2f(PdfVar(file, total, scenario_data[s]))),
               Line("Estimated Physical Risk Loss", s,
                    Format2f(PdfLoss(file, total, scenario_data[s])))>>
        ELSE <<>>)
    \o <<Line("", "", 0)>>
    \o ExposureListing(file)

\* Lines 125-132: the lines written to the PDF for one scenario.
ScenarioSection(s, file, total) ==
    <<Line("Scenario", s, 0),
      Line("Description", scenario_definitions[s], 0),
      Line("Temperature Pathway", scenario_data[s].temperature_pathway, 0),
      Line("Carbon Price (2030)", "AUD per tCO2e", scenario_data[s].carbon_price)>>
    \o (IF file.present
        THEN <<Line("Estimated Transition VaR", s,
                    Format2f(PdfVar(file, total, scenario_data[s]))),
               Line("Estimated Physical Risk Loss", s,
                    Format2f(PdfLoss(file, total, scenario_data[s])))>>
        ELSE <<>>)
    \o <<Line("", "", 0)>>

\* Lines 120-132: the sections of all selected scenarios.
RECURSIVE ScenarioSections(_, _, _)
ScenarioSections(sel, file, total) ==
    IF sel = <<>> THEN <<>>
    ELSE ScenarioSection(Head(sel), file, total)
            \o ScenarioSections(Tail(sel), file, total)

\* Lines 123-124 for every selected scenario: the values of the two locals.
Estimates(sel, file, total) ==
    [i \in 1..Len(sel) |->
        [scenario |-> sel[i],
         estimated_var |-> PdfVar(file, total, scenario_data[sel[i]]),
         estimated_physical_loss |-> PdfLoss(file, total, scenario_data[sel[i]])]]

\* What a run has put on the page when nothing has been reached yet.
EmptyPage ==
    [definitions |-> <<>>,
     total_exposure |-> [defined |-> FALSE, value |-> 0],
     radar |-> [drawn |-> FALSE, series |-> <<>>],
     bar |-> NoBarChart,
     clicked |-> FALSE,
     estimates |-> <<>>,
     pdf |-> <<>>,
     download |-> [offered |-> FALSE, data |-> <<>>],
     error |-> NoError]

\* Lines 51-52: scenario_definitions[s] raises for a name it does not hold.
DefinitionsError(sel) ==
    IF \A i \in 1..Len(sel) : sel[i] \in DOMAIN scenario_definitions
    THEN NoError ELSE KeyError(52)

AfterDefinitions(sel) ==
    [EmptyPage EXCEPT
        !.definitions = Definitions(sel),
        !.error = DefinitionsError(sel)]

\* Lines 59-63: read the file and total its Exposure_M AUD column.
AfterUpload(p, file) ==
    IF p.error # NoError \/ ~file.present THEN p
    ELSE IF ColExposure \notin file.columns THEN [p EXCEPT !.error = KeyError(62)]
    ELSE [p EXCEPT !.total_exposure = [defined |-> TRUE, value |-> ColumnSum(file.cells)]]

\* Lines 66-84.
AfterRadar(p, sel) ==
    IF p.error # NoError THEN p
    ELSE IF FirstMissing(sel, scenario_data) # 0 THEN [p EXCEPT !.error = KeyError(74)]
    ELSE [p EXCEPT !.radar = [drawn |-> TRUE, series |-> RadarSeries(sel)]]

\* The chart step without its test of the uploader.
AfterBarChart_Unguarded(p, sel, file) ==
    IF p.error # NoError THEN p
    ELSE [p EXCEPT !.bar = BarChart(sel, p.total_exposure.value)]

\* Lines 87-111.
AfterBarChart(p, sel, file) ==
    IF p.error # NoError \/ ~file.present THEN p
    ELSE [p EXCEPT !.bar = BarChart(sel, p.total_exposure.value)]

\* Lines 115-146, run when the button reports a click.  io_ok is whether
\* pdf.output and the read-back of the temporary file succeed.
AfterExport(p, sel, file, click, io_ok) ==
    IF p.error # NoError \/ ~click THEN p
    ELSE LET total == p.total_exposure.value
             q == [p EXCEPT
                     !.clicked = TRUE,
                     !.estimates = Estimates(sel, file, total),
                     !.pdf = ScenarioSections(sel, file, total) \o ExposureListing(file)]
         IN  IF ListingRaises(file) THEN [q EXCEPT !.error = KeyError(137)]
             ELSE IF ~io_ok THEN [q EXCEPT !.error = OSError(140)]
             ELSE [q EXCEPT !.download = [offered |-> TRUE, data |-> q.pdf]]

\* The whole script, top to bottom.
Run(sel, file, click, io_ok) ==
    AfterExport(
        AfterBarChart(
            AfterRadar(
                AfterUpload(AfterDefinitions(sel), file),
                sel),
            sel, file),
        sel, file, click, io_ok)

\* Line 139: the export reaches NamedTemporaryFile(delete=False), which
\* creates a file that nothing in the script removes.
CreatesTempFile(p) ==
    p.clicked /\ (p.error = NoError \/ p.error.line >= 139)

\* A widget is on the page when the last run reached its line.
Reached(error, l) == error = NoError \/ error.line > l

----------------------------------------------------------------------------
(* The session                                                             *)

\* What the last run of the script put on the page.
Page == Run(selected_scenarios, exposure_file, generate, storage_ok)

Init ==
    /\ industry = IndustryOptions[1]
    /\ selected_scenarios = default_scenarios(IndustryOptions[1])
    /\ exposure_file = NoFile
    /\ generate = FALSE
    /\ storage_ok = TRUE
    /\ tempfiles = 0

\* The user picks another industry.  The multiselect's default changes with
\* it, which makes it a new widget holding that default (lines 43-49).
SelectIndustry(ind) ==
    /\ ind # industry
    /\ industry' = ind
    /\ selected_scenarios' = default_scenarios(ind)
    /\ generate' = FALSE
    /\ storage_ok' = TRUE
    /\ UNCHANGED <<exposure_file, tempfiles>>

\* The user adds an option not yet chosen; the multiselect appends it.  No
\* max_selections is passed at lines 44-49.
AddScenario(s) ==
    /\ s \notin Range(selected_scenarios)
    /\ selected_scenarios' = Append(selected_scenarios, s)
    /\ generate' = FALSE
    /\ storage_ok' = TRUE
    /\ UNCHANGED <<industry, exposure_file, tempfiles>>

\* The user removes a chosen option.
RemoveScenario(s) ==
    /\ s \in Range(selected_scenarios)
    /\ selected_scenarios' = Remove(selected_scenarios, s)
    /\ generate' = FALSE
    /\ storage_ok' = TRUE
    /\ UNCHANGED <<industry, exposure_file, tempfiles>>

\* The user puts a file into the uploader (line 56), which is on the page
\* when the run got past lines 51-52.
UploadFile(f) ==
    /\ Reached(DefinitionsError(selected_scenarios), 56)
    /\ exposure_file # Uploaded(f)
    /\ exposure_file' = Uploaded(f)
    /\ generate' = FALSE
    /\ storage_ok' = TRUE
    /\ UNCHANGED <<industry, selected_scenarios, tempfiles>>

\* The user clears the uploader.
ClearFile ==
    /\ Reached(DefinitionsError(selected_scenarios), 56)
    /\ exposure_file.present
    /\ exposure_file' = NoFile
    /\ generate' = FALSE
    /\ storage_ok' = TRUE
    /\ UNCHANGED <<industry, selected_scenarios, tempfiles>>

\* The user clicks "Generate PDF Report" (line 115); the button is True in
\* the run the click starts and False in every other run.
GenerateReport(io_ok) ==
    /\ Reached(Page.error, 115)
    /\ tempfiles < MaxExports
    /\ generate' = TRUE
    /\ storage_ok' = io_ok
    /\ tempfiles' =
        IF CreatesTempFile(Run(selected_scenarios, exposure_file, TRUE, io_ok))
        THEN tempfiles + 1 ELSE tempfiles
    /\ UNCHANGED <<industry, selected_scenarios, exposure_file>>

Next ==
    \/ \E i \in 1..Len(IndustryOptions) : SelectIndustry(IndustryOptions[i])
    \/ \E i \in 1..Len(ScenarioOptions) : AddScenario(ScenarioOptions[i])
    \/ \E i \in 1..Len(ScenarioOptions) : RemoveScenario(ScenarioOptions[i])
    \/ \E f \in Files : UploadFile(f)
    \/ ClearFile
    \/ \E io_ok \in BOOLEAN : GenerateReport(io_ok)

Spec == Init /\ [][Next]_vars

----------------------------------------------------------------------------
(* The industry lookup on its own: the session started on any industry     *)
(* value, also one the defaults table does not hold.                       *)

IndustryInputs == Range(IndustryOptions) \cup {"Unknown/Other"}

InitDefaults ==
    /\ industry \in IndustryInputs
    /\ selected_scenarios = default_scenarios(industry)
    /\ exposure_file = NoFile
    /\ generate = FALSE
    /\ storage_ok = TRUE
    /\ tempfiles = 0

\* The selection widgets alone.
NextDefaults ==
    \/ \E i \in 1..Len(IndustryOptions) : SelectIndustry(IndustryOptions[i])
    \/ \E i \in 1..Len(ScenarioOptions) : AddScenario(ScenarioOptions[i])
    \/ \E i \in 1..Len(ScenarioOptions) : RemoveScenario(ScenarioOptions[i])

SpecDefaults == InitDefaults /\ [][NextDefaults]_vars

----------------------------------------------------------------------------
(* Vocabulary of the properties                                            *)

CatalogNames == DOMAIN scenario_definitions \cap DOMAIN scenario_data

\* The upload step produced a data frame and its total (lines 60-63 ran).
DatasetUploaded == exposure_file.present /\ ColExposure \in exposure_file.columns

NoUpload == ~exposure_file.present

\* The sum of the uploaded figures, counted from the last row back.
RECURSIVE SumOfFirst(_, _)
SumOfFirst(cells, n) == IF n = 0 THEN 0 ELSE SumOfFirst(cells, n - 1) + cells[n]

UploadedTotal == SumOfFirst(exposure_file.cells, Len(exposure_file.cells))

MonetaryKinds == {"Estimated Transition VaR", "Estimated Physical Risk Loss"}

Kinds(lines) == [i \in 1..Len(lines) |-> lines[i].kind]

\* The line kinds of one scenario section, with and without a dataset.
SectionWithFigures ==
    <<"Scenario", "Description", "Temperature Pathway", "Carbon Price (2030)",
      "Estimated Transition VaR", "Estimated Physical Risk Loss", "">>

SectionWithoutFigures ==
    <<"Scenario", "Description", "Temperature Pathway", "Carbon Price (2030)", "">>

\* The positions of the lines of a kind.
Where(lines, kind) == {i \in 1..Len(lines) : lines[i].kind = kind}

IsDistinct(s) == \A i, j \in 1..Len(s) : i # j => s[i] # s[j]

----------------------------------------------------------------------------
(* C1                                                                      *)

\* C1: whenever the upload step produced a total, the bar-chart step and the
\* export step (each when it runs) hold, for the i-th selected scenario S,
\* exactly total * S.risk_profile[0] / 10 and total * S.physical_risk, with
\* total the sum of the uploaded figures (0 for no rows), so the two
\* surfaces agree, and the report prints the same two figures with two
\* decimals; total 150 with Net Zero 2050 gives 120.0 and 30.0 (1200 and
\* 300 tenths).
C1_SameFiguresOnBothSurfaces ==
    LET page == Page
    IN
        DatasetUploaded =>
            \A i \in 1..Len(selected_scenarios) :
                LET S == scenario_data[selected_scenarios[i]]
                    var == UploadedTotal * S.risk_profile[1]
                    loss == UploadedTotal * S.physical_risk
                IN  /\ page.bar.drawn =>
                        /\ page.bar.transition_vars[i] = var
                        /\ page.bar.physical_losses[i] = loss
                    /\ page.clicked =>
                        /\ page.estimates[i].estimated_var = var
                        /\ page.estimates[i].estimated_physical_loss = loss
                        /\ page.pdf[(i - 1) * 7 + 5] =
                                Line("Estimated Transition VaR", selected_scenarios[i], var * 10)
                        /\ page.pdf[(i - 1) * 7 + 6] =
                                Line("Estimated Physical Risk Loss", selected_scenarios[i], loss * 10)
                    /\ (UploadedTotal = 150 /\ selected_scenarios[i] = NZ /\ page.bar.drawn) =>
                        /\ page.bar.transition_vars[i] = 1200
                        /\ page.bar.physical_losses[i] = 300

C1_Witness ==
    LET page == Page
    IN
        /\ exposure_file.present
        /\ exposure_file.cells = <<100, 50>>
        /\ NZ \in Range(selected_scenarios)
        /\ Len(selected_scenarios) >= 2
        /\ page.bar.drawn
        /\ page.clicked
        /\ Len(page.estimates) = Len(selected_scenarios)

----------------------------------------------------------------------------
(* C2                                                                      *)

----------------------------------------------------------------------------
(* C3                                                                      *)

\* C3: in every run the bar chart is drawn if and only if the upload step
\* produced a dataset, and in every export each scenario section holds the
\* two estimate lines if and only if it did; with nothing uploaded the
\* chart is absent and every section holds only name, description,
\* temperature pathway and carbon price.
C3_ChartAndEstimateLinesIffDataset ==
    LET page == Page
    IN
        LET shape == IF DatasetUploaded THEN SectionWithFigures ELSE SectionWithoutFigures
            n == Len(shape)
            k == Len(selected_scenarios)
        IN  /\ page.bar.drawn <=> DatasetUploaded
            /\ NoUpload => ~page.bar.drawn
            /\ page.clicked =>
                /\ Len(page.pdf) >= n * k
                /\ \A j \in 1..k : \A l \in 1..n :
                        page.pdf[(j - 1) * n + l].kind = shape[l]
                /\ \A i \in (n * k + 1)..Len(page.pdf) :
                        page.pdf[i].kind \notin MonetaryKinds \cup {"Scenario"}

C3_Witness ==
    LET page == Page
    IN
        /\ NoUpload
        /\ page.clicked
        /\ page.download.offered
        /\ Len(selected_scenarios) = 3
        /\ ~page.bar.drawn
        /\ Kinds(SubSeq(page.pdf, 1, 5)) = SectionWithoutFigures

----------------------------------------------------------------------------
(* C4                                                                      *)

\* C4: every surface a run produces lists the selected scenarios in the
\* order of the selection, one entry each: the radar rings, the bar groups
\* with their tick labels, and the sections of the report.
C4_SelectionOrderOnEverySurface ==
    LET page == Page
    IN
        LET k == Len(selected_scenarios)
            names == Where(page.pdf, "Scenario")
        IN  /\ page.radar.drawn =>
                /\ Len(page.radar.series) = k
                /\ \A i \in 1..k : page.radar.series[i].label = selected_scenarios[i]
            /\ page.bar.drawn =>
                /\ page.bar.ticks = selected_scenarios
                /\ Len(page.bar.transition_vars) = k
                /\ Len(page.bar.physical_losses) = k
            /\ page.clicked =>
                /\ Cardinality(names) = k
                /\ \A i \in 1..k :
                    \E p \in names :
                        /\ Cardinality({q \in names : q < p}) = i - 1
                        /\ page.pdf[p].text = selected_scenarios[i]

C4_Witness ==
    LET page == Page
    IN
        /\ selected_scenarios = <<IDT, NZ, DT>>
        /\ page.radar.drawn
        /\ page.bar.drawn
        /\ page.download.offered

----------------------------------------------------------------------------
(* C5                                                                      *)

\* C5: a report offered for download holds the exposure listing exactly once,
\* after every scenario section, when a file is uploaded, and not at all
\* when none is; under its heading every uploaded row stands once, in upload
\* order, whatever the number of selected scenarios.
C5_ListingOnceAtTheEnd ==
    LET page == Page
    IN
        page.download.offered =>
            LET report == page.download.data
                heads == Where(report, "Uploaded Exposure Data:")
                rows == exposure_file.rows
            IN  /\ NoUpload => heads = {} /\ Where(report, "row") = {}
                /\ exposure_file.present =>
                    /\ heads = {Len(report) - rows}
                    /\ \A p \in Where(report, "Scenario") : p < Len(report) - rows
                    /\ \A i \in 1..rows :
                        /\ report[Len(report) - rows + i].kind = "row"
                        /\ report[Len(report) - rows + i].text = SectorNames[i]
                        /\ report[Len(report) - rows + i].value = exposure_file.cells[i]
                    /\ Cardinality(Where(report, "row")) = rows

C5_Witness ==
    LET page == Page
    IN
        /\ page.download.offered
        /\ Len(exposure_file.cells) = 2
        /\ Len(selected_scenarios) = 2

\* The same with no scenario selected.
C5_WitnessNoScenario ==
    LET page == Page
    IN
        /\ page.download.offered
        /\ Len(exposure_file.cells) = 2
        /\ selected_scenarios = <<>>

----------------------------------------------------------------------------
(* C6                                                                      *)

\* C6: the two catalog tables hold the same names, every scenario has five
\* scores and a physical-risk factor between 0 and 1 (0 and 10 tenths), and
\* no run ends on a failed catalog lookup: every selected name gets its
\* definition line and its radar ring.
C6_CatalogWellFormed ==
    LET page == Page
    IN
        /\ DOMAIN scenario_definitions = DOMAIN scenario_data
        /\ Range(ScenarioOptions) = DOMAIN scenario_data
        /\ \A s \in DOMAIN scenario_data :
            /\ Len(scenario_data[s].risk_profile) = 5
            /\ scenario_data[s].physical_risk \in 0..10
        /\ page.error \notin {KeyError(52), KeyError(74)}
        /\ Len(page.definitions) = Len(selected_scenarios)
        /\ \A i \in 1..Len(page.definitions) :
            page.definitions[i].text = scenario_definitions[selected_scenarios[i]]

C6_Witness ==
    LET page == Page
    IN
        /\ Range(selected_scenarios) = Range(ScenarioOptions)
        /\ Len(page.definitions) = 5
        /\ page.radar.drawn
        /\ Len(page.radar.series) = 5

----------------------------------------------------------------------------
(* C7                                                                      *)

\* C7: the defaults lookup gives the table's list for an industry of the
\* table (Energy: Immediate Disorderly Transition, then Net Zero 2050) and
\* exactly <<Net Zero 2050>> for any other; the list is never empty and
\* holds catalog names only.
C7_DefaultsNeverFail ==
    LET d == default_scenarios(industry)
    IN  /\ industry = "Financial Services" => d = <<NZ, DT>>
        /\ industry = "Real Estate" => d = <<NZ, HHW>>
        /\ industry = "Agriculture" => d = <<DT, HHW>>
        /\ industry = "Energy" => d = <<IDT, NZ>>
        /\ industry = "Manufacturing" => d = <<CPE, DT>>
        /\ industry \notin Range(IndustryOptions) => d = <<NZ>>
        /\ d # <<>>
        /\ Range(d) \subseteq CatalogNames

C7_Witness ==
    LET page == Page
    IN
        /\ industry = "Unknown/Other"
        /\ selected_scenarios = <<NZ>>
        /\ Len(page.definitions) = 1

----------------------------------------------------------------------------
(* C8                                                                      *)

\* C8: the selection the charts and the export read is at most 3 pairwise
\* different catalog names.
C8_AtMostThreeDistinctNames ==
    /\ Len(selected_scenarios) <= 3
    /\ IsDistinct(selected_scenarios)
    /\ Range(selected_scenarios) \subseteq CatalogNames

----------------------------------------------------------------------------
(* C9                                                                      *)

NonNegative(cells) == \A i \in 1..Len(cells) : cells[i] >= 0

\* The uploaded file lacks a required column or holds a negative figure.
MalformedUpload ==
    /\ exposure_file.present
    /\ \/ ColSector \notin exposure_file.columns
       \/ ColExposure \notin exposure_file.columns
       \/ ~NonNegative(exposure_file.cells)

\* C9: a malformed upload yields no bar chart and no estimate line, and the
\* rest of the run still completes: the radar chart is drawn and the run
\* reaches the export button without an uncaught exception.
C9_MalformedUploadBlocksFiguresOnly ==
    LET page == Page
    IN
        MalformedUpload =>
            /\ ~page.bar.drawn
            /\ \A i \in 1..Len(page.pdf) : page.pdf[i].kind \notin MonetaryKinds
            /\ page.radar.drawn
            /\ Reached(page.error, 115)

----------------------------------------------------------------------------
(* C10                                                                     *)

\* C10: after every run, no temporary file of an export is left on disk.
C10_NoTempFileLeft == tempfiles = 0

====
